---- MODULE Spec2Model ----
(***************************************************************************)
(* A model of src/src/transition_table.rs: the DFA transition table, its   *)
(* parser (text -> table) and its serializer (table -> text).              *)
(*                                                                         *)
(* A text is a sequence of one-character strings.  The conversions         *)
(* (str::lines, split_whitespace, usize parsing, usize formatting) are     *)
(* modelled character by character.                                        *)
(***************************************************************************)
EXTENDS Integers, Sequences, FiniteSets, TLC

VARIABLES
    input,              \* the &str handed to parse
    pc,                 \* where the caller stands
    line_index,         \* number of lines the parse loop has consumed
    table,              \* table.rows of parse, as pushed so far
    expected_columns,   \* Option<usize> of parse
    result,             \* what parse returned
    self,               \* the table handed to serialize
    output              \* what serialize returned

vars == <<input, pc, line_index, table, expected_columns, result, self, output>>

----------------------------------------------------------------------------
(* Bounds of the checked inputs. *)

MaxLen == 4         \* texts of arbitrary characters
MaxTokens == 4      \* tokens of a generated single line
MaxLines == 3       \* lines of a text drawn from LinePool
MaxRows == 2        \* rows of a directly constructed table
MaxTrans == 1       \* transitions of a directly constructed row

----------------------------------------------------------------------------
(* Characters. *)

\* char::is_whitespace, restricted to the characters of the checked texts
WhiteSpace == {" ", "\t", "\r", "\n"}

DecimalDigits == <<"0", "1", "2", "3", "4", "5", "6", "7", "8", "9">>

IsDigit(c) == \E d \in 1..10 : DecimalDigits[d] = c

DigitValue(c) == (CHOOSE d \in 1..10 : DecimalDigits[d] = c) - 1

ERROR_SYMBOL == <<"E">>

----------------------------------------------------------------------------
(* Data model. *)

TransErr == [tag |-> "Err", state |-> 0]

TransOk(n) == [tag |-> "Ok", state |-> n]

TransitionTableRow(accepting, id, transitions) ==
    [accepting |-> accepting, id |-> id, transitions |-> transitions]

None == [is_some |-> FALSE, value |-> 0]

Some(n) == [is_some |-> TRUE, value |-> n]

NoMessage == [kind |-> "", line |-> 0, column |-> 0, e |-> ""]

NoResult == [status |-> "none", rows |-> <<>>, message |-> NoMessage]

ResultOk(rows) == [status |-> "Ok", rows |-> rows, message |-> NoMessage]

\* ParseSerializeError: the message, as the parts format! puts together
ParseSerializeError(kind, line, column, e) ==
    [status |-> "Err", rows |-> <<>>,
     message |-> [kind |-> kind, line |-> line, column |-> column, e |-> e]]

\* an abrupt fault (unwrap of None, index out of bounds, arithmetic overflow)
Panic == [status |-> "panic", rows |-> <<>>, message |-> NoMessage]

----------------------------------------------------------------------------
(* Library conversions used by the program. *)

\* position of the first c in s, 0 when there is none
FirstIndexOf(s, c) ==
    IF \E i \in 1..Len(s) : s[i] = c
    THEN CHOOSE i \in 1..Len(s) : s[i] = c /\ \A j \in 1..(i - 1) : s[j] # c
    ELSE 0

RECURSIVE split_inclusive(_)
\* str::split_inclusive('\n'): every piece but possibly the last ends with '\n'
split_inclusive(s) ==
    IF s = <<>> THEN <<>>
    ELSE LET nl == FirstIndexOf(s, "\n")
         IN IF nl = 0 THEN <<s>>
            ELSE <<SubSeq(s, 1, nl)>> \o split_inclusive(SubSeq(s, nl + 1, Len(s)))

\* one line of str::lines: the '\n' is stripped, then one '\r' before it
strip_line_ending(piece) ==
    IF piece # <<>> /\ piece[Len(piece)] = "\n"
    THEN LET l == SubSeq(piece, 1, Len(piece) - 1)
         IN IF l # <<>> /\ l[Len(l)] = "\r" THEN SubSeq(l, 1, Len(l) - 1) ELSE l
    ELSE piece

\* str::lines
lines(s) ==
    LET pieces == split_inclusive(s)
    IN [i \in 1..Len(pieces) |-> strip_line_ending(pieces[i])]

\* length of the longest prefix of s without whitespace
TokenLength(s) ==
    IF \E i \in 1..Len(s) : s[i] \in WhiteSpace
    THEN (CHOOSE i \in 1..Len(s) :
            s[i] \in WhiteSpace /\ \A j \in 1..(i - 1) : s[j] \notin WhiteSpace) - 1
    ELSE Len(s)

RECURSIVE split_on_space(_)
\* str::split(' '): the pieces between single spaces, the empty ones too
split_on_space(s) ==
    LET sp == FirstIndexOf(s, " ")
    IN IF sp = 0 THEN <<s>>
       ELSE <<SubSeq(s, 1, sp - 1)>> \o split_on_space(SubSeq(s, sp + 1, Len(s)))

RECURSIVE split_whitespace(_)
\* str::split_whitespace: the maximal runs of non-whitespace, none empty
split_whitespace(s) ==
    IF s = <<>> THEN <<>>
    ELSE IF Head(s) \in WhiteSpace THEN split_whitespace(Tail(s))
    ELSE LET n == TokenLength(s)
         IN <<SubSeq(s, 1, n)>> \o split_whitespace(SubSeq(s, n + 1, Len(s)))

RECURSIVE DigitsValue(_, _)
\* the value of a run of decimal digits, most significant first
DigitsValue(ds, acc) ==
    IF ds = <<>> THEN acc
    ELSE DigitsValue(Tail(ds), acc * 10 + DigitValue(Head(ds)))

\* str::parse::<usize>: an optional '+', then one or more decimal digits.
\* The checked tokens stay far below usize::MAX, so PosOverflow is not modelled.
parse_usize(src) ==
    IF src = <<>> THEN [ok |-> FALSE, value |-> 0, e |-> "cannot parse integer from empty string"]
    ELSE IF src = <<"+">> \/ src = <<"-">>
    THEN [ok |-> FALSE, value |-> 0, e |-> "invalid digit found in string"]
    ELSE LET ds == IF Head(src) = "+" THEN Tail(src) ELSE src
         IN IF \A i \in 1..Len(ds) : IsDigit(ds[i])
            THEN [ok |-> TRUE, value |-> DigitsValue(ds, 0), e |-> ""]
            ELSE [ok |-> FALSE, value |-> 0, e |-> "invalid digit found in string"]

RECURSIVE to_string_reversed(_)
\* a formatting that emits the least significant digit first
to_string_reversed(n) ==
    IF n < 10 THEN <<DecimalDigits[n + 1]>>
    ELSE <<DecimalDigits[(n % 10) + 1]>> \o to_string_reversed(n \div 10)

RECURSIVE to_string(_)
\* usize::to_string: decimal, no sign, no leading zero
to_string(n) ==
    IF n < 10 THEN <<DecimalDigits[n + 1]>>
    ELSE Append(to_string(n \div 10), DecimalDigits[(n % 10) + 1])

\* an insertion that keeps no order: the rows stay as pushed
sort_insert_unsorted(sorted, row) == Append(sorted, row)

RECURSIVE sort_insert(_, _)
\* sort_by_key(|row| row.id) is a stable sort: a row goes behind every row whose
\* id is not greater
sort_insert(sorted, row) ==
    IF sorted = <<>> THEN <<row>>
    ELSE IF sorted[Len(sorted)].id <= row.id THEN Append(sorted, row)
    ELSE Append(sort_insert(SubSeq(sorted, 1, Len(sorted) - 1), row), sorted[Len(sorted)])

RECURSIVE sort_unstable_by_key(_)
\* a sort that is not stable: a row goes in front of the rows of equal id
sort_unstable_by_key(rows) ==
    IF rows = <<>> THEN <<>>
    ELSE LET rest == sort_unstable_by_key(SubSeq(rows, 1, Len(rows) - 1))
             row == rows[Len(rows)]
             k == Cardinality({i \in 1..Len(rest) : rest[i].id < row.id})
         IN SubSeq(rest, 1, k) \o <<row>> \o SubSeq(rest, k + 1, Len(rest))

RECURSIVE sort_by_key(_)
sort_by_key(rows) ==
    IF rows = <<>> THEN <<>>
    ELSE sort_insert(sort_by_key(SubSeq(rows, 1, Len(rows) - 1)), rows[Len(rows)])

----------------------------------------------------------------------------
(* TransitionTable::parse, one line of its loop. *)

\* a check that wants a transition column too: columns.len() < 3
too_few_columns_below_three(columns) == Len(columns) < 3

\* columns.len() < 2
too_few_columns(columns) == Len(columns) < 2

\* a check that only catches the longer line: expected < columns.len()
column_count_mismatch_longer_only(expected, columns) ==
    expected.is_some /\ expected.value < Len(columns)

\* match expected_columns { Some(expected) => expected != columns.len(), None => .. }
column_count_mismatch(expected, columns) ==
    expected.is_some /\ expected.value # Len(columns)

\* expected_columns after the match
next_expected_columns(expected, columns) ==
    IF expected.is_some THEN expected ELSE Some(Len(columns))

\* match columns[0].chars().next().unwrap() { '+' => .., '-' => .., _ => Err }
parse_accepting(column) ==
    IF column = <<>> THEN "panic"
    ELSE IF Head(column) = "+" THEN "true"
    ELSE IF Head(column) = "-" THEN "false"
    ELSE "invalid"

\* a transition column parsed without the check for the sentinel
parse_transition_without_sentinel(column) ==
    LET p == parse_usize(column)
    IN [ok |-> p.ok, value |-> TransOk(p.value), e |-> p.e]

\* one transition column
parse_transition(column) ==
    IF column = ERROR_SYMBOL THEN [ok |-> TRUE, value |-> TransErr, e |-> ""]
    ELSE LET p == parse_usize(column)
         IN [ok |-> p.ok, value |-> TransOk(p.value), e |-> p.e]

RECURSIVE parse_transitions(_, _, _)
\* for (column_index, column) in columns.iter().skip(2).enumerate()
parse_transitions(columns, column_index, transitions) ==
    IF column_index + 3 > Len(columns)
    THEN [ok |-> TRUE, transitions |-> transitions, column |-> 0, e |-> ""]
    ELSE LET t == parse_transition(columns[column_index + 3])
         IN IF t.ok
            THEN parse_transitions(columns, column_index + 1, Append(transitions, t.value))
            ELSE [ok |-> FALSE, transitions |-> <<>>, column |-> column_index + 3, e |-> t.e]

\* the body of the loop over input.lines().enumerate(); `row` is the row pushed
parse_line(line, index, expected) ==
    LET columns == split_whitespace(line)
        no_row == TransitionTableRow(FALSE, 0, <<>>)
        fail(r, ex) == [result |-> r, row |-> no_row, expected |-> ex]
    IN IF too_few_columns(columns)
       THEN fail(ParseSerializeError("has too few columns", index + 1, 0, ""), expected)
       ELSE IF column_count_mismatch(expected, columns)
       THEN fail(ParseSerializeError(
                    "has a different number of columns than the previous lines",
                    index + 1, 0, ""), expected)
       ELSE LET ex == next_expected_columns(expected, columns)
                accepting == IF Len(columns) < 1 THEN "panic"
                             ELSE parse_accepting(columns[1])
            IN IF accepting = "panic" THEN fail(Panic, ex)
               ELSE IF accepting = "invalid"
               THEN fail(ParseSerializeError("has an invalid accepting state",
                                             index + 1, 0, ""), ex)
               ELSE IF Len(columns) < 2 THEN fail(Panic, ex)
               ELSE LET id == parse_usize(columns[2])
                    IN IF ~id.ok
                       THEN fail(ParseSerializeError("has an invalid state ID",
                                                     index + 1, 0, id.e), ex)
                       ELSE LET ts == parse_transitions(columns, 0, <<>>)
                            IN IF ~ts.ok
                               THEN fail(ParseSerializeError("has an invalid transition",
                                                             index + 1, ts.column, ts.e), ex)
                               ELSE [result |-> ResultOk(<<>>),
                                     row |-> TransitionTableRow(accepting = "true",
                                                                id.value, ts.transitions),
                                     expected |-> ex]

RECURSIVE parse_from(_, _, _, _)
\* the loop from line `index` on, then the sort and the return
parse_from(ls, index, rows, expected) ==
    IF index >= Len(ls) THEN ResultOk(sort_by_key(rows))
    ELSE LET r == parse_line(ls[index + 1], index, expected)
         IN IF r.result.status # "Ok" THEN r.result
            ELSE parse_from(ls, index + 1, Append(rows, r.row), r.expected)

\* TransitionTable::parse as a function of its input
parse(s) == parse_from(lines(s), 0, <<>>, None)

----------------------------------------------------------------------------
(* TransitionTable::serialize. *)

RECURSIVE serialize_transitions(_)
serialize_transitions(transitions) ==
    IF transitions = <<>> THEN <<>>
    ELSE LET t == Head(transitions)
         IN <<" ">> \o (IF t.tag = "Ok" THEN to_string(t.state) ELSE ERROR_SYMBOL)
                    \o serialize_transitions(Tail(transitions))

serialize_row(row) ==
    <<IF row.accepting THEN "+" ELSE "-">> \o <<" ">> \o to_string(row.id)
        \o serialize_transitions(row.transitions)

\* a newline behind every row: row_index < self.rows.len()
newline_follows_every_row(row_index, len) ==
    IF row_index < len THEN "true" ELSE "false"

\* row_index < self.rows.len() - 1, the subtraction being one of usize: for
\* len = 0 it overflows (a panic with overflow checks on, a wrap without them)
newline_follows(row_index, len) ==
    IF len = 0 THEN "panic"
    ELSE IF row_index < len - 1 THEN "true" ELSE "false"

RECURSIVE serialize_from(_, _, _)
\* the loop over self.rows.iter().enumerate() from row_index on
serialize_from(rows, row_index, out) ==
    IF row_index >= Len(rows) THEN [status |-> "Ok", text |-> out]
    ELSE LET o == out \o serialize_row(rows[row_index + 1])
             nl == newline_follows(row_index, Len(rows))
         IN IF nl = "panic" THEN [status |-> "panic", text |-> <<>>]
            ELSE serialize_from(rows, row_index + 1,
                                IF nl = "true" THEN Append(o, "\n") ELSE o)

serialize(rows) == serialize_from(rows, 0, <<>>)

----------------------------------------------------------------------------
(* The checked inputs. *)

Alphabet == {"+", "-", "0", "1", "E", "x", " ", "\r", "\n"}

\* every text of at most MaxLen characters
ShortStrings == UNION {[1..n -> Alphabet] : n \in 0..MaxLen}

RECURSIVE JoinWith(_, _)
JoinWith(parts, sep) ==
    IF parts = <<>> THEN <<>>
    ELSE IF Len(parts) = 1 THEN parts[1]
    ELSE parts[1] \o sep \o JoinWith(Tail(parts), sep)

Tokens == {<<"+">>, <<"-">>, <<"+", "x">>, <<"0">>, <<"1", "0">>, <<"0", "1">>,
           <<"E">>, <<"x">>}

\* every single line of at most MaxTokens tokens, one space between them
TokenLines ==
    {JoinWith(ts, <<" ">>) : ts \in UNION {[1..k -> Tokens] : k \in 1..MaxTokens}}

LinePool ==
    { <<"-", " ", "0">>,                        \* - 0
      <<"+", " ", "0">>,                        \* + 0
      <<"-", " ", "1">>,                        \* - 1
      <<"+", " ", "1", "0", "\r">>,             \* + 10, ending \r\n
      <<"-", " ", "0", " ", "E">>,              \* - 0 E
      <<"+", " ", "0", " ", "1">>,              \* + 0 1
      <<"-", "\t", " ", "+", "1", " ", "0", "2", " ">>,  \* -<tab> +1 02<space>
      <<"+", "x", " ", "0">>,                   \* +x 0
      <<"?", " ", "0">>,                        \* ? 0
      <<"-", " ", "0", " ", "e">>,              \* - 0 e
      <<"-", " ", "-", "1">>,                   \* - -1
      <<"-">> }                                 \* -

\* every text of at most MaxLines lines of LinePool
PoolTexts ==
    {JoinWith(ls, <<"\n">>) : ls \in UNION {[1..k -> LinePool] : k \in 0..MaxLines}}

Texts == ShortStrings \cup TokenLines \cup PoolTexts

Ids == {0, 10}

Transitions == {TransErr, TransOk(1), TransOk(10)}

Rows ==
    {TransitionTableRow(a, id, ts) :
        a \in BOOLEAN, id \in Ids,
        ts \in UNION {[1..k -> Transitions] : k \in 0..MaxTrans}}

\* every directly constructed table of at most MaxRows rows
Tables == UNION {[1..n -> Rows] : n \in 0..MaxRows}

----------------------------------------------------------------------------
(* The caller parses a text and serializes the table it got. *)

Init ==
    /\ input \in Texts
    /\ pc = "parse"
    /\ line_index = 0
    /\ table = <<>>
    /\ expected_columns = None
    /\ result = NoResult
    /\ self = <<>>
    /\ output = <<>>

\* one pass of the loop of parse
ParseLine ==
    /\ pc = "parse"
    /\ line_index < Len(lines(input))
    /\ LET r == parse_line(lines(input)[line_index + 1], line_index, expected_columns)
       IN /\ expected_columns' = r.expected
          /\ line_index' = line_index + 1
          /\ IF r.result.status = "Ok"
             THEN /\ table' = Append(table, r.row)
                  /\ result' = result
                  /\ pc' = "parse"
             ELSE /\ table' = table
                  /\ result' = r.result
                  /\ pc' = IF r.result.status = "panic" THEN "panic" ELSE "failed"
    /\ UNCHANGED <<input, self, output>>

\* the loop is over: sort the rows, return Ok(table)
ParseReturn ==
    /\ pc = "parse"
    /\ line_index >= Len(lines(input))
    /\ table' = sort_by_key(table)
    /\ result' = ResultOk(table')
    /\ pc' = "parsed"
    /\ UNCHANGED <<input, line_index, expected_columns, self, output>>

\* the caller serializes the parsed table
SerializeParsed ==
    /\ pc = "parsed"
    /\ self' = result.rows
    /\ LET s == serialize(result.rows)
       IN /\ output' = s.text
          /\ pc' = IF s.status = "panic" THEN "panic" ELSE "done"
    /\ UNCHANGED <<input, line_index, table, expected_columns, result>>

Next == ParseLine \/ ParseReturn \/ SerializeParsed

Spec == Init /\ [][Next]_vars

----------------------------------------------------------------------------
(* The caller serializes a table it built and parses the text it got. *)

InitTable ==
    /\ self \in Tables
    /\ pc = "serialize"
    /\ input = <<>>
    /\ line_index = 0
    /\ table = <<>>
    /\ expected_columns = None
    /\ result = NoResult
    /\ output = <<>>

SerializeSelf ==
    /\ pc = "serialize"
    /\ LET s == serialize(self)
       IN /\ output' = s.text
          /\ input' = s.text
          /\ pc' = IF s.status = "panic" THEN "panic" ELSE "parse"
    /\ UNCHANGED <<line_index, table, expected_columns, result, self>>

NextTable == SerializeSelf \/ ParseLine \/ ParseReturn

SpecTable == InitTable /\ [][NextTable]_vars

----------------------------------------------------------------------------
(* The text format as the specification states it, independently of the    *)
(* parser: lines between '\n', tokens between whitespace.                  *)

NewlinePositions(s) == {i \in 1..Len(s) : s[i] = "\n"}

\* the lines of s as standard line iteration counts them: a final '\n' ends the
\* last line and starts none
NumLines(s) ==
    Cardinality(NewlinePositions(s))
        + (IF s # <<>> /\ s[Len(s)] # "\n" THEN 1 ELSE 0)

\* the position of the n-th '\n' of s
NthNewline(s, n) ==
    CHOOSE i \in NewlinePositions(s) :
        Cardinality({j \in NewlinePositions(s) : j <= i}) = n

\* the n-th line of s without its '\n'
RawLine(s, n) ==
    LET first == IF n = 1 THEN 1 ELSE NthNewline(s, n - 1) + 1
        last == IF n <= Cardinality(NewlinePositions(s))
                THEN NthNewline(s, n) - 1 ELSE Len(s)
    IN SubSeq(s, first, last)

TokenStarts(l) ==
    {i \in 1..Len(l) : l[i] \notin WhiteSpace /\ (i = 1 \/ l[i - 1] \in WhiteSpace)}

TokenCount(l) == Cardinality(TokenStarts(l))

\* the k-th token of l
TokenAt(l, k) ==
    LET first == CHOOSE i \in TokenStarts(l) :
                    Cardinality({j \in TokenStarts(l) : j <= i}) = k
        last == CHOOSE i \in first..Len(l) :
                    /\ \A j \in first..i : l[j] \notin WhiteSpace
                    /\ (i = Len(l) \/ l[i + 1] \in WhiteSpace)
    IN SubSeq(l, first, last)

IsMarker(tok) == tok = <<"+">> \/ tok = <<"-">>

\* a run of decimal digits, which a leading '+' may precede
IsUnsigned(tok) ==
    LET ds == IF tok # <<>> /\ tok[1] = "+" THEN Tail(tok) ELSE tok
    IN ds # <<>> /\ \A i \in 1..Len(ds) : IsDigit(ds[i])

UnsignedValue(tok) ==
    LET ds == IF tok[1] = "+" THEN Tail(tok) ELSE tok
        n == Len(ds)
        pow[k \in 0..n] == IF k = 0 THEN 1 ELSE 10 * pow[k - 1]
        sum[k \in 0..n] == IF k = 0 THEN 0
                           ELSE sum[k - 1] + DigitValue(ds[k]) * pow[n - k]
    IN sum[n]

IsTransitionToken(tok) == tok = <<"E">> \/ IsUnsigned(tok)

\* the transition columns of l that are neither E nor an unsigned integer
BadTransitionColumns(l) ==
    {k \in 3..TokenCount(l) : ~IsTransitionToken(TokenAt(l, k))}

Min(S) == CHOOSE x \in S : \A y \in S : x <= y

\* the first rule line n of s breaks, the rules taken in the order of section 4.1
\* of the specification; "" when it breaks none
ViolationKind(s, n) ==
    LET l == RawLine(s, n)
    IN IF TokenCount(l) < 2 THEN "has too few columns"
       ELSE IF n > 1 /\ TokenCount(l) # TokenCount(RawLine(s, 1))
       THEN "has a different number of columns than the previous lines"
       ELSE IF ~IsMarker(TokenAt(l, 1)) THEN "has an invalid accepting state"
       ELSE IF ~IsUnsigned(TokenAt(l, 2)) THEN "has an invalid state ID"
       ELSE IF BadTransitionColumns(l) # {} THEN "has an invalid transition"
       ELSE ""

\* the column the error of line n names: that of its first bad transition
ViolationColumn(s, n) ==
    IF ViolationKind(s, n) = "has an invalid transition"
    THEN Min(BadTransitionColumns(RawLine(s, n))) ELSE 0

ViolatingLines(s) == {n \in 1..NumLines(s) : ViolationKind(s, n) # ""}

\* the lines before line n break no rule
EarlierLinesValid(s, n) == \A m \in 1..(n - 1) : ViolationKind(s, m) = ""

\* the row a valid line stands for
RowOfLine(l) ==
    TransitionTableRow(
        TokenAt(l, 1)[1] = "+",
        UnsignedValue(TokenAt(l, 2)),
        [k \in 1..(TokenCount(l) - 2) |->
            IF TokenAt(l, k + 2) = <<"E">> THEN TransErr
            ELSE TransOk(UnsignedValue(TokenAt(l, k + 2)))])

\* out holds the rows of in, ascending by id, rows of equal id in the order of in
IsStableSortOf(out, in) ==
    /\ Len(out) = Len(in)
    /\ \E p \in [1..Len(in) -> 1..Len(in)] :
        /\ \A i, j \in 1..Len(in) : i # j => p[i] # p[j]
        /\ \A i \in 1..Len(in) : out[i] = in[p[i]]
        /\ \A i, j \in 1..Len(in) :
              i < j => /\ out[i].id <= out[j].id
                       /\ (out[i].id = out[j].id => p[i] < p[j])

\* parse has returned
ParseReturned == result.status # "none"

ParseFailedWith(kind, line) ==
    /\ result.status = "Err"
    /\ result.message.kind = kind
    /\ result.message.line = line

----------------------------------------------------------------------------
(* Round trips. *)

InlineSpace == {" ", "\t", "\r"}

RECURSIVE LineMatches(_, _)
\* l, read from state q, matches ('+'|'-') WS <uint> (WS <transition>)*:
\* 1 start, 2 after the marker, 3 in the WS before the id, 4 in the id,
\* 5 in the WS before a transition, 6 in a <uint> transition, 7 after E
LineMatches(l, q) ==
    IF l = <<>> THEN q \in {4, 6, 7}
    ELSE LET c == Head(l)
             n == CASE q = 1 /\ c \in {"+", "-"} -> 2
                    [] q \in {2, 3} /\ c \in InlineSpace -> 3
                    [] q \in {3, 4} /\ IsDigit(c) -> 4
                    [] q \in {4, 5, 6, 7} /\ c \in InlineSpace -> 5
                    [] q \in {5, 6} /\ IsDigit(c) -> 6
                    [] q = 5 /\ c = "E" -> 7
                    [] OTHER -> 0
         IN n # 0 /\ LineMatches(Tail(l), n)

\* the lines of s, joined by single '\n': one more than it has '\n', none for ""
JoinedLineCount(s) == IF s = <<>> THEN 0 ELSE Cardinality(NewlinePositions(s)) + 1

\* s is lines of the grammar joined by '\n', ids ascending, token counts equal
WellFormedSorted(s) ==
    /\ \A n \in 1..JoinedLineCount(s) : LineMatches(RawLine(s, n), 1)
    /\ \A n \in 1..JoinedLineCount(s) :
          TokenCount(RawLine(s, n)) = TokenCount(RawLine(s, 1))
    /\ \A m, n \in 1..JoinedLineCount(s) :
          m < n => UnsignedValue(TokenAt(RawLine(s, m), 2))
                      <= UnsignedValue(TokenAt(RawLine(s, n), 2))

\* every WS of s is one space, and no integer of s has a leading zero
CanonicalForm(s) ==
    /\ \A i \in 1..Len(s) : s[i] \in WhiteSpace => s[i] \in {" ", "\n"}
    /\ \A i \in 1..(Len(s) - 1) : ~(s[i] \in WhiteSpace /\ s[i + 1] \in WhiteSpace)
    /\ \A i \in 1..(Len(s) - 1) :
          (s[i] = "0" /\ IsDigit(s[i + 1])) => (i > 1 /\ IsDigit(s[i - 1]))

\* the caller of Spec has finished
CallerDone == pc \in {"failed", "panic", "done"}

\* C1 as stated: every well-formed text whose rows are sorted by id and whose token
\* counts are consistent parses, and serializing the parsed table returns the text
\* character for character.
C1_RoundTripA_AnyWhitespace ==
    (CallerDone /\ WellFormedSorted(input)) => (pc = "done" /\ output = input)

\* C1 amended: a well-formed, sorted, consistent text in canonical form (one space
\* between tokens, integers without leading zeros, lines joined by one '\n' with no
\* final newline) parses, and serializing the parsed table returns the text
\* character for character.
C1_RoundTripA_Canonical ==
    (CallerDone /\ WellFormedSorted(input) /\ CanonicalForm(input))
        => (pc = "done" /\ output = input)

C1_Witness ==
    /\ pc = "done"
    /\ WellFormedSorted(input) /\ CanonicalForm(input)
    /\ JoinedLineCount(input) = 2
    /\ TokenCount(RawLine(input, 1)) = 3
    /\ output = input

\* the rows of t all have the same number of transitions
ConsistentTable(t) ==
    \A i, j \in 1..Len(t) : Len(t[i].transitions) = Len(t[j].transitions)

\* the caller of SpecTable has finished
TableCallerDone == pc \in {"failed", "panic", "parsed"}

\* C2: for every table whose rows have the same number of transitions (no rows and
\* rows without transitions included), serialize succeeds, parsing its text succeeds,
\* and the parsed table is the table with its rows stably sorted ascending by id.
C2_RoundTripB ==
    (TableCallerDone /\ ConsistentTable(self))
        => /\ pc = "parsed"
           /\ result.status = "Ok"
           /\ IsStableSortOf(result.rows, self)

C2_Witness ==
    /\ pc = "parsed"
    /\ Len(self) = 2
    /\ self[1].id > self[2].id
    /\ Len(self[1].transitions) = 1 /\ Len(self[2].transitions) = 1
    /\ result.rows = <<self[2], self[1]>>

----------------------------------------------------------------------------
(* The order of the parsed rows. *)

\* the rows of the lines of s, in the order of the lines
RowsInInputOrder(s) == [n \in 1..NumLines(s) |-> RowOfLine(RawLine(s, n))]

\* C3: a successful parse returns one row per input line (rows of equal id neither
\* merged nor rejected), in non-decreasing order of id, rows of equal id in the
\* order of their lines.
C3_OneRowPerLineStablySorted ==
    result.status = "Ok"
        => /\ Len(result.rows) = NumLines(input)
           /\ IsStableSortOf(result.rows, RowsInInputOrder(input))

C3_Witness ==
    /\ result.status = "Ok"
    /\ Len(result.rows) = 3
    /\ result.rows[1].id = result.rows[2].id
    /\ result.rows[1] # result.rows[2]
    /\ RowOfLine(RawLine(input, 1)).id > result.rows[1].id

\* the lines of s in the order p, joined by '\n'
Permuted(s, p) == JoinWith([i \in 1..NumLines(s) |-> RawLine(s, p[i])], <<"\n">>)

LinePermutations(s) ==
    {p \in [1..NumLines(s) -> 1..NumLines(s)] :
        \A i, j \in 1..NumLines(s) : i # j => p[i] # p[j]}

RowIds(rows) == [i \in 1..Len(rows) |-> rows[i].id]

\* lines of s that share an id stand for the same row
EqualIdLinesAreEqual(s) ==
    \A m, n \in 1..NumLines(s) :
        RowOfLine(RawLine(s, m)).id = RowOfLine(RawLine(s, n)).id
            => RowOfLine(RawLine(s, m)) = RowOfLine(RawLine(s, n))

\* C4 as stated: the valid lines of a text, parsed in any permutation, give the
\* identical sequence of rows, also when lines share an id and differ otherwise.
C4_AnyPermutationSameRows ==
    result.status = "Ok"
        => \A p \in LinePermutations(input) : parse(Permuted(input, p)) = result

\* C4 amended: the valid lines of a text, parsed in any permutation, give the same
\* ascending sequence of ids; the sequence of rows is identical when the lines that
\* share an id stand for equal rows (rows of equal id keep the order of their lines).
C4_AnyPermutationSameIds ==
    result.status = "Ok"
        => \A p \in LinePermutations(input) :
              LET r == parse(Permuted(input, p))
              IN /\ r.status = "Ok"
                 /\ RowIds(r.rows) = RowIds(result.rows)
                 /\ \A i, j \in 1..Len(r.rows) : i < j => r.rows[i].id <= r.rows[j].id
                 /\ EqualIdLinesAreEqual(input) => r.rows = result.rows

C4_Witness ==
    /\ result.status = "Ok"
    /\ NumLines(input) = 3
    /\ RowOfLine(RawLine(input, 1)).id > RowOfLine(RawLine(input, 3)).id
    /\ RowOfLine(RawLine(input, 2)) = RowOfLine(RawLine(input, 3))
    /\ EqualIdLinesAreEqual(input)

----------------------------------------------------------------------------
(* Validation. *)

\* l is an accepting marker and a state id, and nothing more
MarkerAndIdOnly(l) ==
    /\ TokenCount(l) = 2
    /\ IsMarker(TokenAt(l, 1))
    /\ IsUnsigned(TokenAt(l, 2))

\* C5 as stated: a line that is only a marker and a state id (as "- 0") is rejected
\* with the too-few-columns error citing the line.
C5_MarkerAndIdRejected ==
    ParseReturned
        => \A n \in 1..NumLines(input) :
              (MarkerAndIdOnly(RawLine(input, n)) /\ EarlierLinesValid(input, n))
                  => ParseFailedWith("has too few columns", n)

\* C5 amended: a line of fewer than two tokens (a marker alone, a blank line) is
\* rejected with the too-few-columns error citing the line; a line that is only a
\* marker and a state id is never rejected for its column count, and "- 0" alone
\* parses to one row without transitions.
C5_FewerThanTwoTokensRejected ==
    ParseReturned
        => /\ \A n \in 1..NumLines(input) :
                (TokenCount(RawLine(input, n)) < 2 /\ EarlierLinesValid(input, n))
                    => ParseFailedWith("has too few columns", n)
           /\ \A n \in 1..NumLines(input) :
                MarkerAndIdOnly(RawLine(input, n))
                    => ~ParseFailedWith("has too few columns", n)
           /\ (NumLines(input) = 1 /\ MarkerAndIdOnly(RawLine(input, 1)))
                    => /\ result.status = "Ok"
                       /\ result.rows = <<RowOfLine(RawLine(input, 1))>>
                       /\ result.rows[1].transitions = <<>>

C5_Witness ==
    /\ input = <<"-", " ", "0">>
    /\ result.status = "Ok"
    /\ result.rows = <<TransitionTableRow(FALSE, 0, <<>>)>>

\* C6: a line whose first token is not exactly "+" or "-" (as "+x" or "-1") is
\* rejected with the invalid-accepting-state error citing the line; "+" gives
\* accepting = true and "-" gives accepting = false.
C6_MarkerIsExactlyPlusOrMinus ==
    ParseReturned
        => /\ \A n \in 1..NumLines(input) :
                LET l == RawLine(input, n)
                IN (/\ EarlierLinesValid(input, n)
                    /\ ViolationKind(input, n) = "has an invalid accepting state")
                        => ParseFailedWith("has an invalid accepting state", n)
           /\ result.status = "Ok"
                => \A i \in 1..Len(result.rows) :
                      \E n \in 1..NumLines(input) :
                          /\ IsMarker(TokenAt(RawLine(input, n), 1))
                          /\ result.rows[i].accepting
                                = (TokenAt(RawLine(input, n), 1) = <<"+">>)

\* C7: every parsed table has all rows with as many transitions as the first line
\* has tokens, less 2; the expected count is that of the first line and never
\* changes; a later line of at least 2 tokens whose count differs from the first
\* line's, the earlier lines being valid, gives the different-number-of-columns
\* error citing that line.
C7_UniformColumnCount ==
    /\ expected_columns.is_some
          => expected_columns.value = TokenCount(RawLine(input, 1))
    /\ (line_index >= 1 /\ TokenCount(RawLine(input, 1)) >= 2)
          => expected_columns.is_some
    /\ \A i \in 1..Len(table) :
          Len(table[i].transitions) = TokenCount(RawLine(input, 1)) - 2
    /\ result.status = "Ok"
          => \A i \in 1..Len(result.rows) :
                Len(result.rows[i].transitions) = TokenCount(RawLine(input, 1)) - 2
    /\ ParseReturned
          => \A n \in 2..NumLines(input) :
                (/\ EarlierLinesValid(input, n)
                 /\ TokenCount(RawLine(input, n)) >= 2
                 /\ TokenCount(RawLine(input, n)) # TokenCount(RawLine(input, 1)))
                    => ParseFailedWith(
                          "has a different number of columns than the previous lines", n)

C7_Witness ==
    /\ NumLines(input) = 3
    /\ TokenCount(RawLine(input, 1)) = 3
    /\ TokenCount(RawLine(input, 2)) = 3
    /\ TokenCount(RawLine(input, 3)) = 2
    /\ ParseFailedWith("has a different number of columns than the previous lines", 3)
    /\ Len(table) = 2

\* C8: for every input parse ends by returning Ok or Err and never aborts: the
\* first token whose first character is unwrapped is never empty, and serialize's
\* rows.len() - 1 is never evaluated for a table without rows.
C8_NeverPanics ==
    /\ pc # "panic"
    /\ result.status # "panic"
    /\ pc = "parse" => (result.status = "none" /\ line_index <= NumLines(input))
    /\ pc = "parsed" => result.status = "Ok"
    /\ pc = "failed" => result.status = "Err"
    /\ pc = "done" => result.status = "Ok"

C8_Witness ==
    /\ pc = "failed"
    /\ Len(input) = 4
    /\ \A i \in 1..Len(input) : input[i] \in WhiteSpace
    /\ input[2] = "\n"
    /\ ParseFailedWith("has too few columns", 1)

----------------------------------------------------------------------------
(* The serialized text. *)

\* the decimal digits of n, most significant first
Decimal(n) ==
    LET pow[k \in 0..10] == IF k = 0 THEN 1 ELSE 10 * pow[k - 1]
        len == CHOOSE k \in 1..9 : n < pow[k] /\ (k = 1 \/ n >= pow[k - 1])
    IN [i \in 1..len |-> DecimalDigits[((n \div pow[len - i]) % 10) + 1]]

TransitionText(t) == IF t.tag = "Ok" THEN Decimal(t.state) ELSE <<"E">>

\* marker, id and transitions of a row, one space between them
RowText(row) ==
    JoinWith(<<(IF row.accepting THEN <<"+">> ELSE <<"-">>), Decimal(row.id)>>
                \o [k \in 1..Len(row.transitions) |-> TransitionText(row.transitions[k])],
             <<" ">>)

\* C9: serialize never fails and never reorders: for every table it returns the rows
\* in the table's order, each as marker, space, decimal id and, per transition, a
\* space and the decimal target or E; rows are separated by one '\n', no newline
\* follows the last row, and a table without rows gives the empty string.
C9_SerializeText ==
    pc # "serialize"
        => /\ pc # "panic"
           /\ output = JoinWith([i \in 1..Len(self) |-> RowText(self[i])], <<"\n">>)
           /\ Cardinality(NewlinePositions(output))
                 = (IF self = <<>> THEN 0 ELSE Len(self) - 1)
           /\ output # <<>> => output[Len(output)] # "\n"
           /\ self = <<>> => output = <<>>

C9_Witness ==
    /\ pc # "serialize"
    /\ Len(self) = 2
    /\ self[1].id = 10 /\ self[2].id = 0
    /\ self[1].transitions = <<TransOk(10)>>
    /\ self[2].transitions = <<>>
    /\ output = <<"+", " ", "1", "0", " ", "1", "0", "\n", "-", " ", "0">>

----------------------------------------------------------------------------
(* The error reported. *)

\* C10: when parse fails no table is returned, and the error cites the earliest line
\* that breaks any rule, with the first check that line fails in the order too few
\* columns, column count, accepting marker, state id, transitions left to right; a
\* transition that is neither E nor an unsigned integer is reported with its 1-based
\* column.
C10_FirstViolationWins ==
    /\ result.status = "Err"
          => /\ result.rows = <<>>
             /\ ViolatingLines(input) # {}
             /\ LET n == Min(ViolatingLines(input))
                IN /\ result.message.line = n
                   /\ result.message.kind = ViolationKind(input, n)
                   /\ result.message.column = ViolationColumn(input, n)
    /\ (ParseReturned /\ ViolatingLines(input) # {}) => result.status = "Err"

====
